---- MODULE Spec2Model ----
(***************************************************************************)
(* Model of the mock fleet-location API (src/optifleet/app.py, the         *)
(* authenticated variant, and src/optifleet/app1.py, the variant without   *)
(* credentials and plate mappings).                                        *)
(*                                                                         *)
(* Coordinates are integers in units of 1e-7 degree, one digit finer than  *)
(* the six decimals round(x, 6) keeps; Infinity stands for float('inf').   *)
(* Form and query values are strings; None stands for Python's None (an    *)
(* absent field, header or argument).                                      *)
(***************************************************************************)
EXTENDS Integers, Sequences, FiniteSets, TLC

VARIABLES
    variant,   \* which program runs: "app" (app.py) or "app1" (app1.py)
    file,      \* CONFIG_FILE on disk: [exists, text], text a sequence of JSON chunks
    last,      \* the last request handled to completion and its response
    save,      \* the save_config call in progress, if any
    seen,      \* what the last load_config racing with a save returned
    auth       \* the request require_api_key has admitted and not yet handed on

vars == <<variant, file, last, save, seen, auth>>

----------------------------------------------------------------------------
(* Bounds of the model *)

\* entries (mappings, location rows, settings) filled in one submission, besides
\* the credentials, which the page resubmits as hidden inputs
MaxEntries == 2
\* largest count requested of /api/locations
MaxCount == 2
\* entries filled in a submission whose save is followed write by write
MaxConcEntries == 1

None == "<None>"

\* The indexes i of the form fields api_key_i, plate_number_i, location_name_i.
\* Two of them give each while loop its three cases: an entry that is kept, an
\* entry that is blank, and an absent index followed by a present one.
Idx == {0, 1}

Min(a, b) == IF a <= b THEN a ELSE b

\* Python truthiness of an Optional[str]
Truthy(s) == s # None /\ s # ""

----------------------------------------------------------------------------
(* Configuration (app.py 15-28, app1.py 13-24) *)

Loc(n, la, lo, c) == [name |-> n, lat |-> la, lng |-> lo, country |-> c]

DefaultLocations ==
    << Loc("New York", 407128000, -740060000, "USA"),
       Loc("London", 515074000, -1278000, "UK"),
       Loc("Tokyo", 356762000, 1396503000, "Japan"),
       Loc("Sydney", -338688000, 1512093000, "Australia"),
       Loc("Paris", 488566000, 23522000, "France") >>

NoMappings == [p \in {} |-> ""]

DEFAULT_CONFIG ==
    [ locations |-> DefaultLocations,
      response_format |-> "detailed",
      include_timestamp |-> TRUE,
      max_locations_per_request |-> 10,
      api_keys |-> <<>>,
      plate_mappings |-> NoMappings ]

DEFAULT_CONFIG1 ==
    [ locations |-> DefaultLocations,
      response_format |-> "detailed",
      include_timestamp |-> TRUE,
      max_locations_per_request |-> 10 ]

\* dict.get(key, default)
Get(d, key, default) == IF key \in DOMAIN d THEN d[key] ELSE default

\* d[key] = value on a dict
Put(d, key, value) == (key :> value) @@ d

----------------------------------------------------------------------------
(* json.dump / json.load of a configuration.  The text of the file is the  *)
(* sequence of chunks json.dump writes: an opening brace, one chunk per    *)
(* key, a closing brace.  A text parses only if it is a complete document. *)

KeyOrder == << "locations", "response_format", "include_timestamp",
               "max_locations_per_request", "api_keys", "plate_mappings" >>

RECURSIVE DumpKeys(_, _)
DumpKeys(config, i) ==
    IF i > Len(KeyOrder) THEN <<>>
    ELSE IF KeyOrder[i] \in DOMAIN config
         THEN << [tok |-> "pair", key |-> KeyOrder[i], value |-> config[KeyOrder[i]]] >>
              \o DumpKeys(config, i + 1)
         ELSE DumpKeys(config, i + 1)

json_dump(config) == << [tok |-> "{"] >> \o DumpKeys(config, 1) \o << [tok |-> "}"] >>

Parses(text) ==
    /\ Len(text) >= 2
    /\ text[1].tok = "{"
    /\ text[Len(text)].tok = "}"
    /\ \A i \in 2 .. (Len(text) - 1) : text[i].tok = "pair"

\* a reader that keeps the four base fields only
json_load_base_fields(text) ==
    LET pairs == { i \in 2 .. (Len(text) - 1) : text[i].key \in DOMAIN DEFAULT_CONFIG1 }
        keys == { text[i].key : i \in pairs }
    IN  [ k \in keys |-> text[CHOOSE i \in pairs : text[i].key = k].value ]

json_load(text) ==
    LET pairs == 2 .. (Len(text) - 1)
        keys == { text[i].key : i \in pairs }
    IN  [ k \in keys |-> text[CHOOSE i \in pairs : text[i].key = k].value ]

NoFile == [exists |-> FALSE, text |-> <<>>]

Written(config) == [exists |-> TRUE, text |-> json_dump(config)]

\* app.py load_config: the file's document with api_keys and plate_mappings
\* back-filled, or the built-in default when the file is missing or unparseable
load_config_app(f) ==
    IF f.exists
    THEN IF Parses(f.text)
         THEN LET config == json_load(f.text)
                  c1 == IF "api_keys" \notin DOMAIN config
                        THEN Put(config, "api_keys", <<>>) ELSE config
                  c2 == IF "plate_mappings" \notin DOMAIN c1
                        THEN Put(c1, "plate_mappings", NoMappings) ELSE c1
              IN  c2
         ELSE DEFAULT_CONFIG
    ELSE DEFAULT_CONFIG

\* app1.py load_config: no back-filling
load_config_app1(f) ==
    IF f.exists
    THEN IF Parses(f.text) THEN json_load(f.text) ELSE DEFAULT_CONFIG1
    ELSE DEFAULT_CONFIG1

load_config(v, f) == IF v = "app" THEN load_config_app(f) ELSE load_config_app1(f)

----------------------------------------------------------------------------
(* The form posted to /update-config (request.form) *)

AbsentPlate == [number |-> None, city |-> None]
AbsentRow == [name |-> None, lat |-> None, lng |-> None, country |-> None]

Row(n, la, lo, c) == [name |-> n, lat |-> la, lng |-> lo, country |-> c]

\* the credential fields: none, one, one under index 1 alone, a blank then one
KeyForms ==
    { (0 :> None) @@ (1 :> None), (0 :> "k1") @@ (1 :> None),
      (0 :> None) @@ (1 :> "k1"), (0 :> "") @@ (1 :> "k1") }

PlateValues ==
    { [number |-> "P1", city |-> "NYC"],
      [number |-> "P1", city |-> "LON"],
      [number |-> "P1", city |-> ""] }

RowValues ==
    { Row("NYC", "40.7128", "-74.006", "USA"),
      Row("NYC", "inf", "2", "X"),
      Row("LON", "", "2", "UK"),
      Row("NYC", "abc", "2", "USA") }

FormatValues == {"simple"}
TimestampValues == {"true"}
MaxValues == {"abc", "-1", "1"}

\* float('inf'), which float() accepts and json.dump and json.load carry as
\* Infinity: a value above every finite coordinate
Infinity == 2000000000

\* float(s) and int(s): the strings they accept, with their values
FloatOf == ("40.7128" :> 407128000) @@ ("-74.006" :> -740060000)
           @@ ("inf" :> Infinity) @@ ("2" :> 20000000)

\* x + y on floats, y finite: inf + y is inf
FloatAdd(x, y) == IF x = Infinity THEN Infinity ELSE x + y

IntOf == ("-1" :> -1) @@ ("1" :> 1)

Filled(f, absent) == Cardinality({ i \in Idx : f[i] # absent })

PlateForms(n) == { f \in [Idx -> PlateValues \cup {AbsentPlate}] : Filled(f, AbsentPlate) = n }
RowForms(n) == { f \in [Idx -> RowValues \cup {AbsentRow}] : Filled(f, AbsentRow) = n }

Settings(n) ==
    { s \in [ response_format : FormatValues \cup {None},
              include_timestamp : TimestampValues \cup {None},
              max_locations_per_request : MaxValues \cup {None} ] :
        Cardinality({ k \in DOMAIN s : s[k] # None }) <= n }

\* the submissions with the credential fields keys and at most n other entries
Forms(keys, n) ==
    UNION { { [ api_key |-> k, plate |-> p, location |-> l,
                response_format |-> s.response_format,
                include_timestamp |-> s.include_timestamp,
                max_locations_per_request |-> s.max_locations_per_request ] :
              k \in keys, p \in PlateForms(t[1]), l \in RowForms(t[2]),
              s \in Settings(n - t[1] - t[2]) } :
            t \in { u \in (0 .. n) \X (0 .. n) : u[1] + u[2] <= n } }

\* the form of app1.py has no credential and no mapping fields
Forms1(n) ==
    { f \in Forms({ [i \in Idx |-> None] }, n) : Filled(f.plate, AbsentPlate) = 0 }

AllForms == Forms(KeyForms, MaxEntries)
AllForms1 == Forms1(MaxEntries)
ConcForms == Forms(KeyForms, MaxConcEntries)
ConcForms1 == Forms1(MaxConcEntries)
\* the submissions that carry the credential fields and nothing else
KeyOnlyForms == Forms(KeyForms, 0)

----------------------------------------------------------------------------
(* update_config (app.py 395-450, app1.py 222-258) *)

\* while f'api_key_{i}' in request.form: keep the non-blank values
RECURSIVE ScanApiKeys(_, _, _)
ScanApiKeys(form, i, api_keys) ==
    IF i \notin Idx \/ form.api_key[i] = None THEN api_keys
    ELSE ScanApiKeys(form, i + 1,
                     IF Truthy(form.api_key[i])
                     THEN Append(api_keys, form.api_key[i]) ELSE api_keys)

\* while f'plate_number_{i}' in request.form: keep the pairs with both halves
RECURSIVE ScanPlates(_, _, _)
ScanPlates(form, i, plate_mappings) ==
    IF i \notin Idx \/ form.plate[i].number = None THEN plate_mappings
    ELSE ScanPlates(form, i + 1,
                    IF Truthy(form.plate[i].number) /\ Truthy(form.plate[i].city)
                    THEN Put(plate_mappings, form.plate[i].number, form.plate[i].city)
                    ELSE plate_mappings)

RowComplete(r) == Truthy(r.name) /\ Truthy(r.lat) /\ Truthy(r.lng) /\ Truthy(r.country)

\* while f'location_name_{i}' in request.form: float() raises ValueError on a
\* complete row whose lat or lng is not a number
RECURSIVE ScanLocations(_, _, _)
ScanLocations(form, i, locations) ==
    IF i \notin Idx \/ form.location[i].name = None
    THEN [raised |-> FALSE, locations |-> locations]
    ELSE LET r == form.location[i]
         IN  IF RowComplete(r)
             THEN IF r.lat \in DOMAIN FloatOf /\ r.lng \in DOMAIN FloatOf
                  THEN ScanLocations(form, i + 1,
                           Append(locations, Loc(r.name, FloatOf[r.lat], FloatOf[r.lng], r.country)))
                  ELSE [raised |-> TRUE, locations |-> locations]
             ELSE ScanLocations(form, i + 1, locations)

\* the settings that precede int(): response_format and include_timestamp
ApplySettings(config, form) ==
    LET c1 == Put(config, "response_format",
                  IF form.response_format = None THEN "detailed" ELSE form.response_format)
    IN  Put(c1, "include_timestamp", form.include_timestamp = "true")

\* the body of the try block after the credentials and mappings: the
\* configuration in memory when it ends, and whether it raised
ApplySettingsAndLocations(config, form) ==
    LET c1 == ApplySettings(config, form)
        m  == form.max_locations_per_request
    IN  IF m # None /\ m \notin DOMAIN IntOf
        THEN [raised |-> TRUE, config |-> c1]
        ELSE LET c2 == Put(c1, "max_locations_per_request", IF m = None THEN 10 ELSE IntOf[m])
                 scan == ScanLocations(form, 0, <<>>)
             IN  IF scan.raised THEN [raised |-> TRUE, config |-> c2]
                 ELSE [raised |-> FALSE,
                       config |-> IF scan.locations # <<>>
                                  THEN Put(c2, "locations", scan.locations) ELSE c2]

\* app.py 399-444
apply_form_app(config, form) ==
    LET c1 == Put(config, "api_keys", ScanApiKeys(form, 0, <<>>))
        c2 == Put(c1, "plate_mappings", ScanPlates(form, 0, NoMappings))
    IN  ApplySettingsAndLocations(c2, form)

\* app1.py 226-252
apply_form_app1(config, form) == ApplySettingsAndLocations(config, form)

apply_form(v, config, form) ==
    IF v = "app" THEN apply_form_app(config, form) ELSE apply_form_app1(config, form)

\* save_config moved out of the try block's tail: it runs even when int() or
\* float() raised
persist_before_validation(f, result) == Written(result.config)

\* save_config is reached only when nothing raised: the file after the handler
persist(f, result) == IF result.raised THEN f ELSE Written(result.config)

\* redirect(url_for('config_page')) or the plain-text error
UpdateResponse(result) ==
    IF result.raised
    THEN [code |-> 500, json |-> FALSE, body |-> "Error updating configuration"]
    ELSE [code |-> 302, json |-> FALSE, body |-> "redirect /"]

Idle == [pc |-> "idle"]
NothingSeen == [during |-> FALSE]
NoRequest == [op |-> "none"]
NoAuth == [pc |-> "none"]

\* POST /update-config handled to completion
UpdateConfig(form) ==
    LET result == apply_form(variant, load_config(variant, file), form)
    IN  /\ file' = persist(file, result)
        /\ last' = [op |-> "update", form |-> form, response |-> UpdateResponse(result)]
        /\ UNCHANGED <<auth, variant, save, seen>>

----------------------------------------------------------------------------
(* generate_random_location_data (app.py 71-119, app1.py 41-77) *)

\* what one iteration draws: random.uniform(-0.1, 0.1) twice, then
\* random.randint(5, 50), random.randint(0, 500), random.randint(0, 100)
DrawChoices ==
    { [lat_offset |-> -1000000, lng_offset |-> 999995,
       accuracy |-> 5, altitude |-> 500, fuel_level |-> 0],
      [lat_offset |-> 999996, lng_offset |-> -1000000,
       accuracy |-> 50, altitude |-> 0, fuel_level |-> 100] }

\* round(x, 6): to the nearest multiple of 10 units, ties to the even one;
\* round(inf, 6) is inf
Round6(x) ==
    LET r == x % 10
        down == x - r
    IN  IF x = Infinity THEN Infinity
        ELSE IF r < 5 THEN down
        ELSE IF r > 5 THEN down + 10
        ELSE IF (down \div 10) % 2 = 0 THEN down ELSE down + 10

\* random.choice(seq): the elements it may return (none: it raises IndexError)
RandomChoice(seq) == { seq[i] : i \in 1 .. Len(seq) }

\* the last entry of that name instead of the first
LastMatch(locations, city_name) ==
    LET hits == { i \in 1 .. Len(locations) : locations[i].name = city_name }
    IN  IF hits = {} THEN 0 ELSE CHOOSE i \in hits : \A j \in hits : i >= j

\* next((loc for loc in locations if loc['name'] == city_name), None), as an
\* index into locations, 0 for None
FirstMatch(locations, city_name) ==
    LET hits == { i \in 1 .. Len(locations) : locations[i].name = city_name }
    IN  IF hits = {} THEN 0 ELSE CHOOSE i \in hits : \A j \in hits : i <= j

\* app.py 81-88: the base locations the resolution may yield
BaseChoices(plate_number, config) ==
    LET locations == Get(config, "locations", DefaultLocations)
        plate_mappings == Get(config, "plate_mappings", NoMappings)
    IN  IF Truthy(plate_number) /\ plate_number \in DOMAIN plate_mappings
        THEN LET hit == FirstMatch(locations, plate_mappings[plate_number])
             IN  IF hit # 0 THEN {locations[hit]} ELSE RandomChoice(locations)
        ELSE RandomChoice(locations)

\* range(min(count, config.get('max_locations_per_request', 10)))
Iterations(count, config) ==
    LET n == Min(count, Get(config, "max_locations_per_request", 10))
    IN  IF n < 0 THEN 0 ELSE n

\* the detailed fields: fuel_level only in app.py
DetailedFields(v, base, draw) ==
    LET four == [ city |-> base.name, country |-> base.country,
                  accuracy |-> draw.accuracy, altitude |-> draw.altitude ]
    IN  IF v = "app" THEN Put(four, "fuel_level", draw.fuel_level) ELSE four

\* a location_data dict that carries the detailed fields whatever the format
LocationDataAlwaysDetailed(v, base, plate_number, draw, config) ==
    LET d0 == [ latitude |-> Round6(FloatAdd(base.lat, draw.lat_offset)),
                longitude |-> Round6(FloatAdd(base.lng, draw.lng_offset)) ]
        d1 == IF Truthy(plate_number) THEN Put(d0, "plate_number", plate_number) ELSE d0
        d2 == DetailedFields(v, base, draw) @@ d1
    IN  IF Get(config, "include_timestamp", TRUE) THEN Put(d2, "timestamp", "utcnow") ELSE d2

\* one location_data dict
LocationData(v, base, plate_number, draw, config) ==
    LET d0 == [ latitude |-> Round6(FloatAdd(base.lat, draw.lat_offset)),
                longitude |-> Round6(FloatAdd(base.lng, draw.lng_offset)) ]
        d1 == IF Truthy(plate_number) THEN Put(d0, "plate_number", plate_number) ELSE d0
        d2 == IF Get(config, "response_format", "detailed") = "detailed"
              THEN DetailedFields(v, base, draw) @@ d1 ELSE d1
    IN  IF Get(config, "include_timestamp", TRUE) THEN Put(d2, "timestamp", "utcnow") ELSE d2

Raised(message) == [raised |-> TRUE, message |-> message, data |-> <<>>, bases |-> <<>>]

\* app.py: the base is resolved once, before the loop
generate_app(plate_number, count, config) ==
    LET n == Iterations(count, config)
        choices == BaseChoices(plate_number, config)
    IN  IF choices = {} THEN { Raised("Cannot choose from an empty sequence") }
        ELSE { [ raised |-> FALSE, message |-> "",
                 data |-> [ i \in 1 .. n |->
                            LocationData("app", base, plate_number, draws[i], config) ],
                 bases |-> << base >> ] :
               base \in choices, draws \in [1 .. n -> DrawChoices] }

\* app1.py: random.choice(locations) inside the loop, no plate
generate_app1(count, config) ==
    LET n == Iterations(count, config)
        choices == RandomChoice(Get(config, "locations", DefaultLocations))
    IN  IF n > 0 /\ choices = {} THEN { Raised("Cannot choose from an empty sequence") }
        ELSE { [ raised |-> FALSE, message |-> "",
                 data |-> [ i \in 1 .. n |->
                            LocationData("app1", bases[i], None, draws[i], config) ],
                 bases |-> bases ] :
               bases \in [1 .. n -> choices], draws \in [1 .. n -> DrawChoices] }

generate_random_location_data(v, plate_number, count, config) ==
    IF v = "app" THEN generate_app(plate_number, count, config)
    ELSE generate_app1(count, config)

----------------------------------------------------------------------------
(* The API endpoints (app.py 50-69 and 121-177, app1.py 80-119) *)

Json(code, body) == [code |-> code, json |-> TRUE, body |-> body]

ErrorBody(message) == [status |-> "error", message |-> message]

\* request.headers.get('X-API-Key') or request.args.get('api_key')
PresentedKey(request) == IF Truthy(request.header) THEN request.header ELSE request.api_key

\* require_api_key without its membership test
DenialWithoutMembership(request, config) ==
    IF ~Truthy(PresentedKey(request)) THEN 401 ELSE 0

\* require_api_key: the status of the denial, or 0 when the wrapped handler runs
Denial(request, config) ==
    LET api_key == PresentedKey(request)
    IN  IF ~Truthy(api_key) THEN 401
        ELSE IF \A i \in 1 .. Len(Get(config, "api_keys", <<>>)) :
                    config["api_keys"][i] # api_key
             THEN 403
             ELSE 0

DenialResponse(code) ==
    IF code = 401
    THEN Json(401, ErrorBody("API key required. Provide via X-API-Key header or api_key parameter."))
    ELSE Json(403, ErrorBody("Invalid API key."))

\* request.args.get('count', 5, type=int); the argument is <<>> when absent
\* or not an integer, <<k>> when it parses to k
CountArg(request) == IF request.count = <<>> THEN 5 ELSE request.count[1]

\* get_single_location's answer to one outcome of the generation:
\* generate_random_location_data(...)[0] raises IndexError on an empty list
SingleResponse(outcome) ==
    IF outcome.raised THEN Json(500, ErrorBody(outcome.message))
    ELSE IF Len(outcome.data) = 0 THEN Json(500, ErrorBody("list index out of range"))
    ELSE Json(200, [status |-> "success", data |-> outcome.data[1]])

\* get_multiple_locations' answer to one outcome of the generation
MultipleResponse(outcome) ==
    IF outcome.raised THEN Json(500, ErrorBody(outcome.message))
    ELSE Json(200, [status |-> "success", count |-> Len(outcome.data), data |-> outcome.data])

MissingPlate == Json(400, ErrorBody("plate_number parameter is required."))

Answered(op, request, response, generated, bases) ==
    [ op |-> op, request |-> request, response |-> response,
      generated |-> generated, bases |-> bases ]

\* app.py: the decorator, then the handler, each on its own load_config().
\* handler(request, config) is the set of (response, generated, bases) it may give.
Guarded(op, request, count) ==
    LET denial == Denial(request, load_config_app(file))
        config == load_config_app(file)
    IN  IF denial # 0
        THEN last' = Answered(op, request, DenialResponse(denial), FALSE, <<>>)
        ELSE IF ~Truthy(request.plate_number)
        THEN last' = Answered(op, request, MissingPlate, FALSE, <<>>)
        ELSE \E outcome \in generate_app(request.plate_number, count, config) :
                last' = Answered(op, request,
                                 IF op = "single" THEN SingleResponse(outcome)
                                 ELSE MultipleResponse(outcome),
                                 TRUE, outcome.bases)

\* <<X-API-Key header, api_key argument>>
Credentials == { <<None, None>>, <<None, "k1">>, <<"k1", None>>, <<"bad", "k1">> }

Plates == {None, "P1", "P2"}

Counts == -1 .. MaxCount

SingleRequests ==
    { [header |-> c[1], api_key |-> c[2], plate_number |-> p, count |-> <<>>] :
      c \in Credentials, p \in Plates }

MultipleRequests ==
    { [header |-> c[1], api_key |-> c[2], plate_number |-> p, count |-> <<k>>] :
      c \in Credentials, p \in Plates, k \in Counts }

\* GET /api/location, app.py
GetSingleLocation(request) ==
    /\ Guarded("single", request, 1)
    /\ UNCHANGED <<auth, variant, file, save, seen>>

\* GET /api/locations, app.py
GetMultipleLocations(request) ==
    /\ Guarded("multiple", request,
               Min(CountArg(request),
                   Get(load_config_app(file), "max_locations_per_request", 10)))
    /\ UNCHANGED <<auth, variant, file, save, seen>>

Anonymous(count) ==
    [header |-> None, api_key |-> None, plate_number |-> None, count |-> count]

\* GET /api/location, app1.py
GetSingleLocation1 ==
    /\ \E outcome \in generate_app1(1, load_config_app1(file)) :
          last' = Answered("single", Anonymous(<<>>), SingleResponse(outcome),
                           TRUE, outcome.bases)
    /\ UNCHANGED <<auth, variant, file, save, seen>>

\* GET /api/locations, app1.py
GetMultipleLocations1(k) ==
    /\ LET config == load_config_app1(file)
           count == Min(CountArg(Anonymous(<<k>>)),
                        Get(config, "max_locations_per_request", 10))
       IN  \E outcome \in generate_app1(count, config) :
              last' = Answered("multiple", Anonymous(<<k>>), MultipleResponse(outcome),
                               TRUE, outcome.bases)
    /\ UNCHANGED <<auth, variant, file, save, seen>>

\* the response leaves the server; the next request is independent of it
Respond ==
    /\ last.op # "none"
    /\ last' = NoRequest
    /\ UNCHANGED <<auth, variant, file, save, seen>>

----------------------------------------------------------------------------
(* save_config (app.py 45-48, app1.py 36-39) write by write, with a        *)
(* load_config of another request running in between                       *)

\* update_config up to its call of save_config: a submission that raises is
\* answered at once, any other starts the save
BeginUpdate(form) ==
    LET config == load_config(variant, file)
        result == apply_form(variant, config, form)
    IN  /\ seen' = NothingSeen
        /\ IF result.raised
           THEN /\ last' = [op |-> "update", form |-> form, response |-> UpdateResponse(result)]
                /\ save' = save
           ELSE /\ save' = [pc |-> "open", form |-> form, before |-> config,
                            config |-> result.config]
                /\ last' = last
        /\ UNCHANGED <<auth, variant, file>>

\* open(CONFIG_FILE, 'w') creates or truncates the file
SaveOpen ==
    /\ save.pc = "open"
    /\ file' = [exists |-> TRUE, text |-> <<>>]
    /\ save' = [save EXCEPT !.pc = "write"]
    /\ UNCHANGED <<auth, variant, last, seen>>

\* json.dump writes the next chunk
SaveWrite ==
    /\ save.pc = "write"
    /\ Len(file.text) < Len(json_dump(save.config))
    /\ file' = [file EXCEPT !.text = Append(@, json_dump(save.config)[Len(@) + 1])]
    /\ UNCHANGED <<auth, variant, last, save, seen>>

\* the with block ends and update_config redirects
SaveClose ==
    /\ save.pc = "write"
    /\ Len(file.text) = Len(json_dump(save.config))
    /\ save' = Idle
    /\ seen' = NothingSeen
    /\ last' = [ op |-> "update", form |-> save.form,
                 response |-> UpdateResponse([raised |-> FALSE]) ]
    /\ UNCHANGED <<auth, variant, file>>

\* the load_config of a request handled while the save is in progress
LoadDuringSave ==
    /\ save.pc # "idle"
    /\ seen' = [ during |-> TRUE, config |-> load_config(variant, file),
                 before |-> save.before, saving |-> save.config ]
    /\ UNCHANGED <<auth, variant, file, last, save>>

----------------------------------------------------------------------------
(* require_api_key and the handler it wraps (app.py 50-69, 121-177), each   *)
(* on its own load_config(), with the update-config of another client      *)
(* handled in between                                                      *)

\* the answer of a handler with the two configurations the request met: the
\* one require_api_key checked and the one the handler generated from
Snapshot(answer, checked, used) == [checked |-> checked, used |-> used] @@ answer

\* decorated_function up to return f(*args, **kwargs): the request is denied,
\* or admitted on the configuration just loaded
Admit(op, request) ==
    LET config == load_config_app(file)
        denial == Denial(request, config)
    IN  /\ IF denial # 0
           THEN /\ last' = Answered(op, request, DenialResponse(denial), FALSE, <<>>)
                /\ auth' = auth
           ELSE /\ auth' = [pc |-> "admitted", op |-> op, request |-> request,
                            checked |-> config]
                /\ last' = last
        /\ UNCHANGED <<variant, file, save, seen>>

\* get_single_location or get_multiple_locations, from its own load_config()
Handle ==
    /\ auth.pc = "admitted"
    /\ LET config == load_config_app(file)
           request == auth.request
           count == IF auth.op = "single" THEN 1
                    ELSE Min(CountArg(request), Get(config, "max_locations_per_request", 10))
       IN  IF ~Truthy(request.plate_number)
           THEN last' = Snapshot(Answered(auth.op, request, MissingPlate, FALSE, <<>>),
                                 auth.checked, config)
           ELSE \E outcome \in generate_app(request.plate_number, count, config) :
                   last' = Snapshot(Answered(auth.op, request,
                                             IF auth.op = "single" THEN SingleResponse(outcome)
                                             ELSE MultipleResponse(outcome),
                                             TRUE, outcome.bases),
                                    auth.checked, config)
    /\ auth' = NoAuth
    /\ UNCHANGED <<variant, file, save, seen>>

\* POST /update-config of another client, handled to completion between the
\* decorator and the handler of the admitted request
UpdateBetween(form) ==
    /\ file' = persist(file, apply_form(variant, load_config(variant, file), form))
    /\ UNCHANGED <<variant, last, save, seen, auth>>

----------------------------------------------------------------------------

\* a configuration file written by hand: no locations, no optional keys
EmptyLocationsConfig == [DEFAULT_CONFIG1 EXCEPT !.locations = <<>>]

InitFiles == { NoFile, Written(EmptyLocationsConfig) }

Init ==
    /\ variant \in {"app", "app1"}
    /\ file \in InitFiles
    /\ last = NoRequest
    /\ save = Idle
    /\ seen = NothingSeen
    /\ auth = NoAuth

\* the server is free: no request is being answered and no save is under way
Free == last.op = "none" /\ save.pc = "idle" /\ auth.pc = "none"

App == Free /\ variant = "app"
App1 == Free /\ variant = "app1"

\* every request handled to completion before the next one starts
Next ==
    \/ App /\ \E form \in AllForms : UpdateConfig(form)
    \/ App1 /\ \E form \in AllForms1 : UpdateConfig(form)
    \/ App /\ \E request \in SingleRequests : GetSingleLocation(request)
    \/ App /\ \E request \in MultipleRequests : GetMultipleLocations(request)
    \/ App1 /\ GetSingleLocation1
    \/ App1 /\ \E k \in Counts : GetMultipleLocations1(k)
    \/ Respond

Spec == Init /\ [][Next]_vars

\* update-config submissions whose save interleaves with other requests' loads
NextConc ==
    \/ App /\ \E form \in ConcForms : BeginUpdate(form)
    \/ App1 /\ \E form \in ConcForms1 : BeginUpdate(form)
    \/ SaveOpen
    \/ SaveWrite
    \/ SaveClose
    \/ LoadDuringSave
    \/ Respond

SpecConc == Init /\ [][NextConc]_vars

\* app.py: a request between its decorator and its handler while another
\* client's update-config is handled
NextRace ==
    \/ App /\ \E form \in KeyOnlyForms : UpdateConfig(form)
    \/ App /\ \E request \in SingleRequests : Admit("single", request)
    \/ App /\ \E request \in MultipleRequests : Admit("multiple", request)
    \/ auth.pc = "admitted" /\ \E form \in KeyOnlyForms : UpdateBetween(form)
    \/ Handle
    \/ Respond

SpecRace == Init /\ [][NextRace]_vars

----------------------------------------------------------------------------
(* Properties *)

IsQuery == last.op \in {"single", "multiple"}

\* the configuration a handler finishing now has loaded: no request writes the
\* file except update-config
Stored == load_config(variant, file)

Succeeded == last.response.code = 200 /\ last.response.body.status = "success"

\* the records of the last response, as a sequence
Records ==
    IF ~IsQuery \/ ~Succeeded THEN <<>>
    ELSE IF last.op = "single" THEN << last.response.body.data >>
    ELSE last.response.body.data

\* the credential a request presents: the header, or else the query argument
CredentialOf(request) ==
    IF request.header # None /\ request.header # "" THEN request.header ELSE request.api_key

IsMember(key, keys) == \E i \in 1 .. Len(keys) : keys[i] = key

\* C1: in app.py a request without a credential is denied with 401 and an error
\* payload, one whose credential is not in api_keys is denied with 403, only a
\* credential in api_keys lets the request reach the generation, and a denied
\* request returns no record.
C1_AccessGate ==
    (variant = "app" /\ IsQuery) =>
        LET key == CredentialOf(last.request)
            absent == key = None \/ key = ""
            member == IsMember(key, Stored["api_keys"])
            r == last.response
        IN  /\ absent => (r.code = 401 /\ r.json /\ r.body.status = "error")
            /\ (~absent /\ ~member) => (r.code = 403 /\ r.json /\ r.body.status = "error")
            /\ last.generated => (~absent /\ member)
            /\ r.code \in {401, 403} =>
                   (~last.generated /\ "data" \notin DOMAIN r.body /\ Records = <<>>)

\* a credential was presented, it is not among a non-empty api_keys, and the
\* request was denied with 403
C1_Witness ==
    /\ variant = "app" /\ IsQuery
    /\ CredentialOf(last.request) = "bad"
    /\ Stored["api_keys"] # <<>>
    /\ last.response.code = 403

\* the plate of the last request is mapped to a city that names a location
MappedToListedCity ==
    /\ variant = "app" /\ IsQuery /\ last.generated
    /\ last.request.plate_number \in DOMAIN Stored["plate_mappings"]
    /\ \E i \in 1 .. Len(Stored["locations"]) :
           Stored["locations"][i].name = Stored["plate_mappings"][last.request.plate_number]

\* C2: when the plate is mapped to a city that names some location, the base
\* of the generation is the first location of that name, never another one.
C2_MappedBase ==
    MappedToListedCity =>
        LET locations == Stored["locations"]
            city == Stored["plate_mappings"][last.request.plate_number]
        IN  \E i \in 1 .. Len(locations) :
                /\ locations[i].name = city
                /\ \A j \in 1 .. (i - 1) : locations[j].name # city
                /\ last.bases = << locations[i] >>
                /\ \A n \in 1 .. Len(Records) :
                       (Stored["response_format"] = "detailed") =>
                           /\ Records[n].city = locations[i].name
                           /\ Records[n].country = locations[i].country

\* two different locations carry the mapped name and a record came back
C2_Witness ==
    /\ MappedToListedCity
    /\ Len(Stored["locations"]) = 2
    /\ Stored["locations"][1].name = Stored["locations"][2].name
    /\ Stored["locations"][1] # Stored["locations"][2]
    /\ Records # <<>>

\* C3: a load_config that runs while a save_config is in progress returns the
\* configuration as it was before the save or the one being saved.
C3_AtomicSave ==
    seen.during => (seen.config = seen.before \/ seen.config = seen.saving)

\* the rows of a submission that the handler's loop reaches: those before the
\* first absent index
Reached(form, i) == \A j \in Idx : j <= i => form.location[j].name # None

IsBlank(v) == v = None \/ v = ""

NotNumeric(v) == v \notin {"40.7128", "-74.006", "inf", "2"}

\* a submission that fails validation: max_locations_per_request is not an
\* integer, or a complete row has a latitude or longitude that is not a number
FailsValidation(form) ==
    \/ form.max_locations_per_request \notin {None, "-1", "1"}
    \/ \E i \in Idx :
          /\ Reached(form, i)
          /\ ~IsBlank(form.location[i].name) /\ ~IsBlank(form.location[i].country)
          /\ ~IsBlank(form.location[i].lat) /\ ~IsBlank(form.location[i].lng)
          /\ (NotNumeric(form.location[i].lat) \/ NotNumeric(form.location[i].lng))

ValidRows(form) ==
    LET valid(i) == /\ ~IsBlank(form.location[i].name) /\ ~IsBlank(form.location[i].country)
                    /\ ~IsBlank(form.location[i].lat) /\ ~IsBlank(form.location[i].lng)
                    /\ ~NotNumeric(form.location[i].lat) /\ ~NotNumeric(form.location[i].lng)
        row(i) == Loc(form.location[i].name, FloatOf[form.location[i].lat],
                      FloatOf[form.location[i].lng], form.location[i].country)
    IN  (IF valid(0) THEN << row(0) >> ELSE <<>>) \o (IF valid(1) THEN << row(1) >> ELSE <<>>)

JustUpdated == last.op = "none" /\ last'.op = "update" /\ last'.response.code = 302

\* C5: after an update-config, the stored locations are the submitted valid
\* rows in order when there is one, and the locations of before otherwise.
C5_LocationsReplacedOrKept ==
    [][ JustUpdated =>
            load_config(variant, file')["locations"] =
                IF ValidRows(last'.form) # <<>> THEN ValidRows(last'.form)
                ELSE load_config(variant, file)["locations"] ]_vars

\* the number of records a request for k records under the cap m is to return
Expected(k, m) == IF k <= 0 THEN 0 ELSE Min(k, m)

\* C6: a request for k records under the cap m returns min(k, m) records, none
\* when k <= 0, and the count field is the number of records in data.
C6_RecordCount ==
    (IsQuery /\ last.op = "multiple" /\ Succeeded) =>
        /\ Len(last.response.body.data) =
               Expected(last.request.count[1], Stored["max_locations_per_request"])
        /\ last.response.body.count = Len(last.response.body.data)

\* C7: in detailed format every record of one response carries the same city
\* and country, those of the one base resolved for the request.
C7_OneBasePerResponse ==
    (IsQuery /\ Succeeded /\ Stored["response_format"] = "detailed") =>
        \A i, j \in 1 .. Len(Records) :
            /\ Records[i].city = Records[j].city
            /\ Records[i].country = Records[j].country

\* the plate of the last request is mapped to a city that names no location
StaleMapping ==
    /\ variant = "app" /\ IsQuery /\ last.generated
    /\ last.request.plate_number \in DOMAIN Stored["plate_mappings"]
    /\ Stored["locations"] # <<>>
    /\ \A i \in 1 .. Len(Stored["locations"]) :
           Stored["locations"][i].name # Stored["plate_mappings"][last.request.plate_number]

\* C8: with a stale mapping and a non-empty locations the request succeeds on
\* a base that is one of the locations.
C8_StaleMappingSucceeds ==
    StaleMapping =>
        /\ Succeeded
        /\ Len(last.bases) = 1
        /\ \E i \in 1 .. Len(Stored["locations"]) : last.bases[1] = Stored["locations"][i]

\* C9: with an empty locations every generation request is answered with a
\* structured 500 whose status is "error".
C9_EmptyLocationsIsAnError ==
    (IsQuery /\ last.generated /\ "locations" \in DOMAIN Stored /\ Stored["locations"] = <<>>) =>
        /\ last.response.code = 500
        /\ last.response.json
        /\ last.response.body.status = "error"

\* the non-blank credentials of a submission, in index order
SubmittedKeys(form) ==
    (IF IsBlank(form.api_key[0]) THEN <<>> ELSE << form.api_key[0] >>)
    \o (IF IsBlank(form.api_key[1]) THEN <<>> ELSE << form.api_key[1] >>)

\* the pairs of a submission with both halves filled, a later pair replacing
\* an earlier one on the same plate
SubmittedMappings(form) ==
    LET full == { i \in Idx : ~IsBlank(form.plate[i].number) /\ ~IsBlank(form.plate[i].city) }
        plates == { form.plate[i].number : i \in full }
    IN  [ p \in plates |->
          form.plate[CHOOSE i \in full : /\ form.plate[i].number = p
                                         /\ \A j \in full : form.plate[j].number = p => j <= i].city ]

\* C10: after a successful update-config of app.py, api_keys is the submitted
\* non-blank credentials and plate_mappings the submitted pairs with both halves
\* filled, whichever indexes they were submitted under.
C10_KeysAndMappingsRebuilt ==
    (variant = "app" /\ last.op = "update" /\ last.response.code = 302) =>
        /\ Stored["api_keys"] = SubmittedKeys(last.form)
        /\ Stored["plate_mappings"] = SubmittedMappings(last.form)

C12_LoadNeverFails ==
    LET config == load_config(variant, file)
    IN  /\ (~file.exists \/ ~Parses(file.text)) => config = DEFAULT_CONFIG
        /\ {"api_keys", "plate_mappings"} \subseteq DOMAIN config

\* the base of the i-th record of the last response
BaseOf(i) == IF variant = "app" THEN last.bases[1] ELSE last.bases[i]

\* C13: a record in simple format has latitude and longitude, plate_number when
\* a plate was given, timestamp when include_timestamp is set, and nothing
\* else; a record in detailed format has the city and country of its base,
\* accuracy in 5..50, altitude in 0..500 and, in app.py, fuel_level in 0..100.
C13_FieldsFollowFormat ==
    (IsQuery /\ Succeeded) =>
        \A i \in 1 .. Len(Records) :
            LET r == Records[i]
                extras == (IF Truthy(last.request.plate_number) THEN {"plate_number"} ELSE {})
                          \cup (IF Stored["include_timestamp"] THEN {"timestamp"} ELSE {})
            IN  /\ Stored["response_format"] = "simple" =>
                       DOMAIN r = {"latitude", "longitude"} \cup extras
                /\ Stored["response_format"] = "detailed" =>
                       /\ {"city", "country", "accuracy", "altitude"} \subseteq DOMAIN r
                       /\ r.city = BaseOf(i).name
                       /\ r.country = BaseOf(i).country
                       /\ r.accuracy \in 5 .. 50
                       /\ r.altitude \in 0 .. 500
                       /\ variant = "app" =>
                              ("fuel_level" \in DOMAIN r /\ r.fuel_level \in 0 .. 100)

\* a request with a plate answered in simple format without timestamp
C13_Witness ==
    /\ variant = "app" /\ IsQuery /\ Succeeded
    /\ Stored["response_format"] = "simple"
    /\ ~Stored["include_timestamp"]
    /\ Records # <<>>
    /\ DOMAIN Records[1] = {"latitude", "longitude", "plate_number"}

\* abs(a - b) <= 0.1 on floats: inf - inf is nan, and nan <= 0.1 is false
Near(a, b) ==
    /\ a # Infinity /\ b # Infinity
    /\ a - b <= 1000000 /\ b - a <= 1000000

\* C14: the latitude and the longitude of every record are within 0.1 degree
\* of those of its base, both rounded to six decimals, whatever latitude and
\* longitude update-config accepted for the base.
C14_WithinTenthOfBase ==
    (IsQuery /\ Succeeded) =>
        \A i \in 1 .. Len(Records) :
            /\ Near(Records[i].latitude, Round6(BaseOf(i).lat))
            /\ Near(Records[i].longitude, Round6(BaseOf(i).lng))

\* C15: the cap of every stored configuration is at least 1.
C15_CapIsPositive == Stored["max_locations_per_request"] >= 1

\* C16: a request answered with a success presented a credential that is in
\* api_keys of the configuration its records were generated from, which is the
\* configuration require_api_key checked.
C16_OneSnapshot ==
    (IsQuery /\ "used" \in DOMAIN last /\ Succeeded) =>
        /\ IsMember(CredentialOf(last.request), last.used["api_keys"])
        /\ last.used = last.checked

====
